---- MODULE Spec2Model ----
(***************************************************************************)
(* Report Draft Generator: the markdown normalisation of                   *)
(* convert_md_to_docx (src/src/converter.py), the retry loops of ocr and   *)
(* gen_draft (src/src/util.py), the temporary files of one request         *)
(* (src/src/app.py, src/src/converter.py) and the style post-processing of *)
(* the produced document (src/src/converter.py).                           *)
(*                                                                         *)
(* A markdown line is a sequence of one-character strings; a document is a *)
(* sequence of lines (text.splitlines()).  Indices are 1-based here and    *)
(* 0-based in the source.                                                  *)
(***************************************************************************)
EXTENDS Integers, Sequences, FiniteSets, TLC

VARIABLES
    \* ---- convert_md_to_docx, lines 35-134 ----
    lines,                \* the input line list of the current application
    display_block_lines,  \* indices of the detected multi-line display blocks
    processed,            \* output of the math pass
    processed_src,        \* history: input index of each processed line, 0 = inserted
    final_lines,          \* output of the table / figure spacing pass
    final_src,            \* history: input index of each final line, 0 = inserted
    pc,                   \* position inside the normalisation
    round,                \* 1: first application, 2: applied to its own output
    input0,               \* history: the input of the first application
    \* ---- one request of main, with ocr and gen_draft ----
    rpc,                  \* position of main
    files,                \* temporary files that exist
    attempt,              \* loop variable of the running retry loop
    log,                  \* history: calls, failures, sleeps, outcome per function
    draft_text,           \* main's accumulated draft
    stream_text,          \* history: non-empty chunk texts of the current stream
    nchunks,              \* chunks received from the current stream
    \* ---- style post-processing ----
    body,                 \* the body's block elements, in document order
    body0,                \* history: the body as pandoc produced it
    spc,                  \* position of the post-processor
    pidx,                 \* next paragraph of the first loop
    tidx                  \* next table of the table loop

normVars  == <<lines, display_block_lines, processed, processed_src,
               final_lines, final_src, pc, round, input0>>
reqVars   == <<rpc, files, attempt, log, draft_text, stream_text, nchunks>>
styleVars == <<body, body0, spc, pidx, tidx>>
vars      == <<normVars, reqVars, styleVars>>

(***************************************************************************)
(* Bounds of the checked inputs.                                           *)
(***************************************************************************)
MaxLines == 4
MaxLineLen == 12
MaxChunks == 2
MaxBody == 4

(***************************************************************************)
(* Strings and the regular expressions of the normaliser.                  *)
(***************************************************************************)
IsSpace(c) == c = " "

\* index of the first / last non-whitespace character (Len+1 / 0 when none)
FirstNonSpace(s) ==
    IF \E i \in 1..Len(s) : ~IsSpace(s[i])
    THEN CHOOSE i \in 1..Len(s) :
            ~IsSpace(s[i]) /\ \A j \in 1..(i-1) : IsSpace(s[j])
    ELSE Len(s) + 1

LastNonSpace(s) ==
    IF \E i \in 1..Len(s) : ~IsSpace(s[i])
    THEN CHOOSE i \in 1..Len(s) :
            ~IsSpace(s[i]) /\ \A j \in (i+1)..Len(s) : IsSpace(s[j])
    ELSE 0

\* str.lstrip() and str.strip()
LStrip(s) == SubSeq(s, FirstNonSpace(s), Len(s))

Strip(s) == SubSeq(s, FirstNonSpace(s), LastNonSpace(s))

\* line.strip() != "" is ~IsBlank(line)
IsBlank(s) == Strip(s) = <<>>

StartsWith(s, prefix) ==
    /\ Len(s) >= Len(prefix)
    /\ SubSeq(s, 1, Len(prefix)) = prefix

\* "$$" occurs in s at index i
DollarsAt(s, i) == i >= 1 /\ i + 1 <= Len(s) /\ s[i] = "$" /\ s[i+1] = "$"

\* re.match(r"^\s*\$\$\s*$", line)
IsMarkerLine(s) ==
    LET p == FirstNonSpace(s)
    IN  /\ DollarsAt(s, p)
        /\ \A r \in (p+2)..Len(s) : IsSpace(s[r])

\* re.match(r"^\s*\$\$(.+?)\$\$\s*$", line): after the leading whitespace an
\* opening "$$", at least one character, a closing "$$", then only whitespace
IsLineDisplay(s) ==
    LET p == FirstNonSpace(s)
    IN  /\ DollarsAt(s, p)
        /\ \E q \in (p+3)..(Len(s)-1) :
              /\ DollarsAt(s, q)
              /\ \A r \in (q+2)..Len(s) : IsSpace(s[r])

\* "$$" in line
HasDollars(s) == \E i \in 1..Len(s) : DollarsAt(s, i)

\* r"\$\$(.+?)\$\$" matches at p: the index of the closing "$$" the lazy
\* group stops at (0 when there is no match at p)
ClosingAtGreedy(s, p) ==
    IF DollarsAt(s, p) /\ \E q \in (p+3)..Len(s) : DollarsAt(s, q)
    THEN CHOOSE q \in (p+3)..Len(s) :
            DollarsAt(s, q) /\ \A r \in (q+1)..Len(s) : ~DollarsAt(s, r)
    ELSE 0

ClosingAt(s, p) ==
    IF DollarsAt(s, p) /\ \E q \in (p+3)..Len(s) : DollarsAt(s, q)
    THEN CHOOSE q \in (p+3)..Len(s) :
            DollarsAt(s, q) /\ \A r \in (p+3)..(q-1) : ~DollarsAt(s, r)
    ELSE 0

\* inline_replacer: "$" + group(1) + "$"
inline_replacer(inner) == <<"$">> \o inner \o <<"$">>

\* re.sub(r"\$\$(.+?)\$\$", inline_replacer, line), scanning from pos: the
\* leftmost match, replaced, then on from behind it
RECURSIVE SubFrom(_, _)
SubFrom(s, pos) ==
    IF \E p \in pos..Len(s) : ClosingAt(s, p) # 0
    THEN LET p == CHOOSE p \in pos..Len(s) :
                     ClosingAt(s, p) # 0
                     /\ \A r \in pos..(p-1) : ClosingAt(s, r) = 0
             q == ClosingAt(s, p)
         IN  SubSeq(s, pos, p-1)
             \o inline_replacer(SubSeq(s, p+2, q-1))
             \o SubFrom(s, q+2)
    ELSE SubSeq(s, pos, Len(s))

InlineSub(s) == SubFrom(s, 1)

\* line.lstrip().startswith("|") and line.lstrip().startswith("![](")
IsTableRow(s) == StartsWith(LStrip(s), <<"|">>)

IsImageLine(s) == StartsWith(LStrip(s), <<"!", "[", "]", "(">>)

(***************************************************************************)
(* Pass 1: the ranges of the multi-line display blocks.                    *)
(***************************************************************************)
\* the inner while: the first "$$"-only line at or after i, Len+1 when none
NextMarker(ls, i) ==
    IF \E e \in i..Len(ls) : IsMarkerLine(ls[e])
    THEN CHOOSE e \in i..Len(ls) :
            IsMarkerLine(ls[e]) /\ \A r \in i..(e-1) : ~IsMarkerLine(ls[r])
    ELSE Len(ls) + 1

\* the block an opening marker at i with the scan stopped at e contributes
BlockRangeToEnd(ls, i, e) == i..(IF e <= Len(ls) THEN e ELSE Len(ls))

BlockRange(ls, i, e) == IF e <= Len(ls) THEN i..e ELSE {}

RECURSIVE DetectFrom(_, _, _)
DetectFrom(ls, i, acc) ==
    IF i > Len(ls) THEN acc
    ELSE IF IsMarkerLine(ls[i])
         THEN LET e == NextMarker(ls, i + 1)
              IN  DetectFrom(ls, e + 1, acc \cup BlockRange(ls, i, e))
         ELSE DetectFrom(ls, i + 1, acc)

DetectBlocks(ls) == DetectFrom(ls, 1, {})

(***************************************************************************)
(* Pass 2: display math kept and spaced, embedded math made inline.  The   *)
(* accumulator holds each emitted line with the input index it came from.  *)
(***************************************************************************)
Emit(text, src) == [text |-> text, src |-> src]

\* len(processed) > 0 and processed[-1].strip() != ""
NeedsBlankBeforeAlways(acc) == Len(acc) > 0

NeedsBlankBefore(acc) == Len(acc) > 0 /\ ~IsBlank(acc[Len(acc)].text)

\* j < len(lines) and lines[j].strip() != ""
NeedsBlankAfter(ls, j) == j <= Len(ls) /\ ~IsBlank(ls[j])

BlankIf(cond) == IF cond THEN <<Emit(<<>>, 0)>> ELSE <<>>

\* the last index of the run of block lines starting at j
BlockEnd(ls, dbl, j) ==
    CHOOSE e \in j..Len(ls) :
        /\ \A r \in j..e : r \in dbl
        /\ (e + 1 > Len(ls) \/ (e + 1) \notin dbl)

\* processed.append(line.strip())
DisplayLine(line) == Strip(line)

\* lines 100-106
OrdinaryLine(line) == IF HasDollars(line) THEN InlineSub(line) ELSE line

RECURSIVE ProcessFrom(_, _, _, _)
ProcessFrom(ls, dbl, j, acc) ==
    IF j > Len(ls) THEN acc
    ELSE IF j \in dbl
         THEN LET e == BlockEnd(ls, dbl, j)
              IN  ProcessFrom(ls, dbl, e + 1,
                      acc \o BlankIf(NeedsBlankBefore(acc))
                          \o [r \in 1..(e - j + 1) |-> Emit(ls[j + r - 1], j + r - 1)]
                          \o BlankIf(NeedsBlankAfter(ls, e + 1)))
         ELSE IF IsLineDisplay(ls[j])
              THEN ProcessFrom(ls, dbl, j + 1,
                      acc \o BlankIf(NeedsBlankBefore(acc))
                          \o <<Emit(DisplayLine(ls[j]), j)>>
                          \o BlankIf(NeedsBlankAfter(ls, j + 1)))
              ELSE ProcessFrom(ls, dbl, j + 1,
                      acc \o <<Emit(OrdinaryLine(ls[j]), j)>>)

ProcessLines(ls, dbl) == ProcessFrom(ls, dbl, 1, <<>>)

(***************************************************************************)
(* Pass 3: blank lines around table-row runs and figure lines.             *)
(***************************************************************************)
\* the last index of the run of table rows starting at k
TableEnd(pr, k) ==
    CHOOSE e \in k..Len(pr) :
        /\ \A r \in k..e : IsTableRow(pr[r].text)
        /\ (e + 1 > Len(pr) \/ ~IsTableRow(pr[e + 1].text))

\* k < len(processed) and processed[k].strip() != ""
NextNeedsBlankNever(pr, k) == FALSE

NextNeedsBlank(pr, k) == k <= Len(pr) /\ ~IsBlank(pr[k].text)

RECURSIVE SpaceFrom(_, _, _)
SpaceFrom(pr, k, acc) ==
    IF k > Len(pr) THEN acc
    ELSE IF IsTableRow(pr[k].text)
         THEN LET e == TableEnd(pr, k)
              IN  SpaceFrom(pr, e + 1,
                      acc \o BlankIf(NeedsBlankBefore(acc))
                          \o SubSeq(pr, k, e)
                          \o BlankIf(NextNeedsBlank(pr, e + 1)))
         ELSE IF IsImageLine(pr[k].text)
              THEN SpaceFrom(pr, k + 1,
                      acc \o BlankIf(NeedsBlankBefore(acc))
                          \o <<pr[k]>>
                          \o BlankIf(NextNeedsBlank(pr, k + 1)))
              ELSE SpaceFrom(pr, k + 1, acc \o <<pr[k]>>)

SpaceBlocks(pr) == SpaceFrom(pr, 1, <<>>)

Texts(recs) == [r \in 1..Len(recs) |-> recs[r].text]

Srcs(recs) == [r \in 1..Len(recs) |-> recs[r].src]

WithSrc(texts, srcs) == [r \in 1..Len(texts) |-> Emit(texts[r], srcs[r])]

(***************************************************************************)
(* The checked inputs of the normaliser: documents of up to MaxLines lines *)
(* over a vocabulary of line shapes, and one-line documents over "$" and   *)
(* "a" of up to MaxLineLen characters.                                     *)
(***************************************************************************)
Vocab ==
    { <<>>,
      <<"a">>,
      <<"$", "$">>,
      <<"|", "a">>,
      <<"!", "[", "]", "(">>,
      <<"$", "$", "a", "$", "$">>,
      <<" ", "$", "$", "a", "$", "$">>,
      <<"a", "$", "$", "a", "$", "$">> }

SeqsUpTo(S, n) == UNION { [1..m -> S] : m \in 0..n }

DocInputs == SeqsUpTo(Vocab, MaxLines)

LineInputs == { <<l>> : l \in SeqsUpTo({"$", "a"}, MaxLineLen) }

Inputs == DocInputs \cup LineInputs

(***************************************************************************)
(* The normalisation as a state machine.                                   *)
(***************************************************************************)
ReqIdle ==
    /\ rpc = "off" /\ files = {} /\ attempt = 0 /\ log = <<>>
    /\ draft_text = <<>> /\ stream_text = <<>> /\ nchunks = 0

StyleIdle ==
    /\ body = <<>> /\ body0 = <<>> /\ spc = "off" /\ pidx = 0 /\ tidx = 0

InitNormalize ==
    /\ lines \in Inputs
    /\ input0 = lines
    /\ display_block_lines = {}
    /\ processed = <<>> /\ processed_src = <<>>
    /\ final_lines = <<>> /\ final_src = <<>>
    /\ pc = "detect"
    /\ round = 1
    /\ ReqIdle /\ StyleIdle

\* lines 46-59
Detect ==
    /\ pc = "detect"
    /\ display_block_lines' = DetectBlocks(lines)
    /\ pc' = "process"
    /\ UNCHANGED <<lines, processed, processed_src, final_lines, final_src,
                   round, input0, reqVars, styleVars>>

\* lines 61-107
Process ==
    /\ pc = "process"
    /\ LET out == ProcessLines(lines, display_block_lines)
       IN  /\ processed' = Texts(out)
           /\ processed_src' = Srcs(out)
    /\ pc' = "space"
    /\ UNCHANGED <<lines, display_block_lines, final_lines, final_src,
                   round, input0, reqVars, styleVars>>

\* lines 109-132
Space ==
    /\ pc = "space"
    /\ LET out == SpaceBlocks(WithSrc(processed, processed_src))
       IN  /\ final_lines' = Texts(out)
           /\ final_src' = Srcs(out)
    /\ pc' = "done"
    /\ UNCHANGED <<lines, display_block_lines, processed, processed_src,
                   round, input0, reqVars, styleVars>>

\* the normalisation applied to its own output
Reapply ==
    /\ pc = "done" /\ round = 1
    /\ lines' = final_lines
    /\ display_block_lines' = {}
    /\ processed' = <<>> /\ processed_src' = <<>>
    /\ final_lines' = <<>> /\ final_src' = <<>>
    /\ pc' = "detect"
    /\ round' = 2
    /\ UNCHANGED <<input0, reqVars, styleVars>>

NextNormalize == Detect \/ Process \/ Space \/ Reapply

SpecNormalize == InitNormalize /\ [][NextNormalize]_vars

(***************************************************************************)
(* Vocabulary of the normaliser's properties.                              *)
(***************************************************************************)
Done == pc = "done"

Max(a, b) == IF a >= b THEN a ELSE b

\* the position in final_lines of input line j (every input line is emitted once)
Pos(j) == CHOOSE p \in 1..Len(final_src) : final_src[p] = j

Out(j) == final_lines[Pos(j)]

\* maximal runs of table rows of a line list: first indices, last index of a run
RunStarts(ls) ==
    { i \in 1..Len(ls) : IsTableRow(ls[i]) /\ (i = 1 \/ ~IsTableRow(ls[i-1])) }

RunEnd(ls, s) ==
    CHOOSE e \in s..Len(ls) :
        /\ \A r \in s..e : IsTableRow(ls[r])
        /\ (e = Len(ls) \/ ~IsTableRow(ls[e+1]))

NthRunStart(ls, k) ==
    CHOOSE s \in RunStarts(ls) :
        Cardinality({ t \in RunStarts(ls) : t < s }) = k - 1

\* number of consecutive blank lines right before index s / right after index e
BlanksBefore(ls, s) ==
    CHOOSE n \in 0..(s-1) :
        /\ \A m \in 1..n : IsBlank(ls[s-m])
        /\ (n = s - 1 \/ ~IsBlank(ls[s-n-1]))

BlanksAfter(ls, e) ==
    CHOOSE n \in 0..(Len(ls)-e) :
        /\ \A m \in 1..n : IsBlank(ls[e+m])
        /\ (n = Len(ls) - e \/ ~IsBlank(ls[e+n+1]))

\* only blank lines, or nothing, before s / after e
AtStart(ls, s) == BlanksBefore(ls, s) = s - 1

AtEnd(ls, e) == BlanksAfter(ls, e) = Len(ls) - e

DollarCount(s) == Cardinality({ i \in 1..Len(s) : s[i] = "$" })

PairMarks(s) == { i \in 1..Len(s) : DollarsAt(s, i) }

NoTriple(s) == \A i \in 1..Len(s) : ~(DollarsAt(s, i) /\ DollarsAt(s, i+1))

\* every "$" of s belongs to a "$$", no three "$" in a row, and the "$$" pair up
WellFormedPairs(s) ==
    /\ NoTriple(s)
    /\ \A i \in 1..Len(s) : s[i] = "$" => (DollarsAt(s, i) \/ DollarsAt(s, i-1))
    /\ Cardinality(PairMarks(s)) >= 2
    /\ Cardinality(PairMarks(s)) % 2 = 0

\* s with every "$$" made "$"
Collapse(s) ==
    LET keep == { i \in 1..Len(s) : ~DollarsAt(s, i-1) }
        nth(k) == CHOOSE i \in keep : Cardinality({ t \in keep : t < i }) = k - 1
    IN  [k \in 1..Cardinality(keep) |-> s[nth(k)]]

\* ignoring surrounding whitespace, s begins with "$$" and ends with "$$"
BeginsAndEndsWithDollars(s) ==
    LET t == Strip(s)
    IN  Len(t) >= 5 /\ DollarsAt(t, 1) /\ DollarsAt(t, Len(t) - 1)

\* the line is one display expression: "$$", content without "$", "$$"
IsExactDisplay(s) ==
    /\ BeginsAndEndsWithDollars(s)
    /\ DollarCount(s) = 4

\* a "$$...$$" pair with text before or after it on the line
HasEmbeddedPair(s) == WellFormedPairs(s) /\ ~IsExactDisplay(s)

Markers(ls) == { i \in 1..Len(ls) : IsMarkerLine(ls[i]) }

\* the last "$$"-only line opens a block that nothing closes
Unterminated(ls) == Cardinality(Markers(ls)) % 2 = 1

LastMarker(ls) == CHOOSE m \in Markers(ls) : \A r \in Markers(ls) : r <= m

\* the blocks: an odd-numbered "$$"-only line through the next "$$"-only line
BlockPairs(ls) ==
    { se \in Markers(ls) \X Markers(ls) :
        /\ se[1] < se[2]
        /\ \A r \in Markers(ls) : ~(se[1] < r /\ r < se[2])
        /\ Cardinality({ r \in Markers(ls) : r < se[1] }) % 2 = 0 }

(***************************************************************************)
(* C1 as stated: after normalisation every maximal run of table rows is    *)
(* preceded by exactly one blank line and followed by exactly one blank    *)
(* line, whatever the spacing of the input and also at the start and the   *)
(* end of the text.                                                        *)
(***************************************************************************)
C1_ExactlyOneBlank ==
    Done =>
        \A s \in RunStarts(final_lines) :
            /\ BlanksBefore(final_lines, s) = 1
            /\ BlanksAfter(final_lines, RunEnd(final_lines, s)) = 1

(***************************************************************************)
(* C1, amended: the table-row runs of the output are those of the input,   *)
(* in order.  A run with other text before it is preceded by exactly one   *)
(* blank line where the input had none or one, and by as many as the input *)
(* had where it had several; a run at the start of the text gets no blank  *)
(* line added before it.  The same holds after the run and at the end.     *)
(***************************************************************************)
C1_BlankAroundTables ==
    Done =>
        /\ Cardinality(RunStarts(final_lines)) = Cardinality(RunStarts(lines))
        /\ \A k \in 1..Cardinality(RunStarts(lines)) :
             LET si == NthRunStart(lines, k)
                 ei == RunEnd(lines, si)
                 so == NthRunStart(final_lines, k)
                 eo == RunEnd(final_lines, so)
                 bi == BlanksBefore(lines, si)
                 ai == BlanksAfter(lines, ei)
             IN  /\ eo - so = ei - si
                 /\ BlanksBefore(final_lines, so) =
                        IF AtStart(lines, si) THEN bi ELSE Max(1, bi)
                 /\ BlanksAfter(final_lines, eo) =
                        IF AtEnd(lines, ei) THEN ai ELSE Max(1, ai)

\* a run right behind text gained its blank line, and kept the two behind it
C1_Witness ==
    /\ Done
    /\ \E s \in RunStarts(lines) :
          /\ s > 1
          /\ BlanksBefore(lines, s) = 0
          /\ BlanksAfter(lines, RunEnd(lines, s)) >= 2
          /\ Len(final_lines) = Len(lines) + 1

(***************************************************************************)
(* C2 as stated: a line that is exactly one display expression, outside a  *)
(* multi-line block, is in the output character for character as in the    *)
(* input, with a blank line right before it and right after it (read in    *)
(* the claim's favour: unless it is the first, or the last, line).         *)
(***************************************************************************)
C2_DisplayLineVerbatim ==
    Done =>
        \A j \in 1..Len(lines) :
            (j \notin display_block_lines /\ IsExactDisplay(lines[j])) =>
                /\ Out(j) = lines[j]
                /\ Pos(j) > 1 => IsBlank(final_lines[Pos(j) - 1])
                /\ Pos(j) < Len(final_lines) => IsBlank(final_lines[Pos(j) + 1])

(***************************************************************************)
(* C3 as stated: on a line outside a display block, every "$$...$$" pair   *)
(* that has text before or after it becomes "$...$" and no other character *)
(* changes, also when that text holds further pairs.                       *)
(***************************************************************************)
C3_EmbeddedPairsInlined ==
    Done =>
        \A j \in 1..Len(lines) :
            (j \notin display_block_lines /\ HasEmbeddedPair(lines[j])) =>
                Out(j) = Collapse(lines[j])

(***************************************************************************)
(* C3, amended: the pairs of such a line become "$...$" and nothing else   *)
(* changes, provided the line (ignoring surrounding whitespace) does not   *)
(* both begin with "$$" and end with "$$"; a line that does is taken for   *)
(* one display expression and kept, stripped, with no pair rewritten.      *)
(***************************************************************************)
C3_EmbeddedPairsInlinedUnlessEnclosed ==
    Done =>
        \A j \in 1..Len(lines) :
            (j \notin display_block_lines /\ HasEmbeddedPair(lines[j])) =>
                Out(j) = IF BeginsAndEndsWithDollars(lines[j])
                         THEN Strip(lines[j])
                         ELSE Collapse(lines[j])

\* a line with two pairs, text between and around them, both pairs inlined
C3_Witness ==
    /\ Done
    /\ \E j \in 1..Len(lines) :
          /\ j \notin display_block_lines
          /\ HasEmbeddedPair(lines[j])
          /\ Cardinality(PairMarks(lines[j])) = 4
          /\ ~BeginsAndEndsWithDollars(lines[j])
          /\ DollarCount(Out(j)) = 4

(***************************************************************************)
(* C4 as stated: the normalisation is idempotent on every input.           *)
(***************************************************************************)
C4_Idempotent == (Done /\ round = 2) => final_lines = lines

(***************************************************************************)
(* C4, amended: the normalisation is idempotent on every input no line of  *)
(* which holds three or more "$" in a row.                                 *)
(***************************************************************************)
C4_IdempotentNoTriple ==
    (Done /\ round = 2 /\ \A j \in 1..Len(input0) : NoTriple(input0[j]))
        => final_lines = lines

\* the first application inserted a line and rewrote a pair; the second ran
C4_Witness ==
    /\ Done /\ round = 2
    /\ \A j \in 1..Len(input0) : NoTriple(input0[j])
    /\ Len(lines) > Len(input0)
    /\ \E j \in 1..Len(input0) :
          HasEmbeddedPair(input0[j]) /\ ~BeginsAndEndsWithDollars(input0[j])

(***************************************************************************)
(* C8 as stated: with an opening "$$"-only line that nothing closes, no    *)
(* line from it on is in a detected block, and no "$$...$$" pair on those  *)
(* lines is rewritten (every such line keeps all its "$").                 *)
(***************************************************************************)
C8_UnterminatedLeftUnconverted ==
    (Done /\ Unterminated(lines)) =>
        \A i \in LastMarker(lines)..Len(lines) :
            /\ i \notin display_block_lines
            /\ DollarCount(Out(i)) = DollarCount(lines[i])

(***************************************************************************)
(* C8, amended: no line from the unclosed marker on is in a detected       *)
(* block and the marker line is emitted unchanged, but the lines behind it *)
(* are ordinary lines: a line without "$$" is unchanged and the embedded   *)
(* pairs of a line are still rewritten to "$...$".                         *)
(***************************************************************************)
C8_UnterminatedIsOrdinaryText ==
    (Done /\ Unterminated(lines)) =>
        /\ Out(LastMarker(lines)) = lines[LastMarker(lines)]
        /\ \A i \in LastMarker(lines)..Len(lines) :
            /\ i \notin display_block_lines
            /\ ~HasDollars(lines[i]) => Out(i) = lines[i]
            /\ (HasEmbeddedPair(lines[i]) /\ ~BeginsAndEndsWithDollars(lines[i]))
                   => Out(i) = Collapse(lines[i])

\* a pair behind the unclosed marker was rewritten
C8_Witness ==
    /\ Done /\ Unterminated(lines)
    /\ \E i \in (LastMarker(lines)+1)..Len(lines) :
          /\ HasEmbeddedPair(lines[i])
          /\ DollarCount(Out(i)) < DollarCount(lines[i])

(***************************************************************************)
(* C9 as stated: every detected multi-line display block is in the final   *)
(* markdown unchanged and contiguous: each of its lines as in the input,   *)
(* in order, with no line inserted between its markers.                    *)
(***************************************************************************)
C9_BlockCarriedContiguous ==
    Done =>
        \A se \in BlockPairs(lines) :
            (se[1]..se[2]) \subseteq display_block_lines =>
                \A i \in se[1]..se[2] :
                    /\ Out(i) = lines[i]
                    /\ i < se[2] => Pos(i + 1) = Pos(i) + 1

(***************************************************************************)
(* One request of main: the uploaded PDF's temporary file around ocr, the  *)
(* streamed gen_draft, then the temporary directory around                 *)
(* convert_md_to_docx with its own temporary markdown file.                *)
(***************************************************************************)
max_retries == 5

Functions == {"ocr", "gen_draft"}

\* the texts a chunk of the response stream may carry ("" is dropped)
ChunkTexts == { <<>>, <<"A">> }

NormIdle ==
    /\ lines = <<>> /\ input0 = <<>> /\ display_block_lines = {}
    /\ processed = <<>> /\ processed_src = <<>>
    /\ final_lines = <<>> /\ final_src = <<>>
    /\ pc = "off" /\ round = 0

NoCalls == [calls |-> 0, fails |-> 0, sleeps |-> <<>>, outcome |-> "running",
            raised_at |-> 0]

InitRequest ==
    /\ rpc = "form"
    /\ files = {}
    /\ attempt = 0
    /\ log = [f \in Functions |-> NoCalls]
    /\ draft_text = <<>>
    /\ stream_text = <<>>
    /\ nchunks = 0
    /\ NormIdle /\ StyleIdle

\* time.sleep(2**attempt)
BackoffLinear(k) == 2 * k

Backoff(k) == 2 ^ k

\* attempt < max_retries - 1
MayRetry(k) == k < max_retries - 1

\* the log of f with one more external call made
Called(f) == [log EXCEPT ![f].calls = @ + 1]

\* the except branch of f's loop after its call (logged in lg) failed:
\* sleep and go round again, or re-raise
Failed(lg, f) ==
    IF MayRetry(attempt)
    THEN [lg EXCEPT ![f].fails = @ + 1,
                    ![f].sleeps = Append(@, Backoff(attempt))]
    ELSE [lg EXCEPT ![f].fails = @ + 1,
                    ![f].outcome = "raised",
                    ![f].raised_at = attempt + 1]

\* app.py 22-33 and 100-101: both inputs given, or st.error
Click ==
    /\ rpc = "form"
    /\ \E api_key \in BOOLEAN, uploaded_file \in BOOLEAN :
          IF api_key /\ uploaded_file
          THEN /\ files' = files \cup {"pdf"}
               /\ rpc' = "ocr"
          ELSE /\ files' = files
               /\ rpc' = "rejected"
    /\ attempt' = 0
    /\ UNCHANGED <<log, draft_text, stream_text, nchunks, normVars, styleVars>>

\* util.py 56-66: an attempt of ocr succeeds; main leaves the with block
OcrAttemptOk ==
    /\ rpc = "ocr"
    /\ log' = [Called("ocr") EXCEPT !["ocr"].outcome = "returned"]
    /\ files' = files \ {"pdf"}
    /\ rpc' = "gen"
    /\ attempt' = 0
    /\ UNCHANGED <<draft_text, stream_text, nchunks, normVars, styleVars>>

\* util.py 67-72: an attempt of ocr fails
OcrAttemptFail ==
    /\ rpc = "ocr"
    /\ log' = Failed(Called("ocr"), "ocr")
    /\ IF MayRetry(attempt)
       THEN /\ attempt' = attempt + 1
            /\ UNCHANGED <<rpc, files>>
       ELSE /\ files' = files \ {"pdf"}
            /\ rpc' = "failed"
            /\ UNCHANGED attempt
    /\ UNCHANGED <<draft_text, stream_text, nchunks, normVars, styleVars>>

\* util.py 141-144: generate_content(stream=True) answers
GenCallOk ==
    /\ rpc = "gen"
    /\ log' = Called("gen_draft")
    /\ stream_text' = <<>>
    /\ nchunks' = 0
    /\ rpc' = "stream"
    /\ UNCHANGED <<files, attempt, draft_text, normVars, styleVars>>

\* a failure of gen_draft's current attempt, in the call or in the stream
GenFailed(lg) ==
    /\ log' = Failed(lg, "gen_draft")
    /\ IF MayRetry(attempt)
       THEN /\ attempt' = attempt + 1
            /\ rpc' = "gen"
       ELSE /\ rpc' = "failed"
            /\ UNCHANGED attempt
    /\ UNCHANGED <<files, draft_text, stream_text, nchunks, normVars, styleVars>>

\* util.py 141-144 and 150-155: generate_content raises
GenCallFail ==
    /\ rpc = "gen"
    /\ GenFailed(Called("gen_draft"))

\* util.py 146-148 and app.py 43-45: the next chunk; a chunk with text is
\* yielded and main appends it to draft_text
GenChunk ==
    /\ rpc = "stream"
    /\ nchunks < MaxChunks
    /\ \E text \in ChunkTexts :
          /\ draft_text' = draft_text \o text
          /\ stream_text' = stream_text \o text
    /\ nchunks' = nchunks + 1
    /\ UNCHANGED <<rpc, files, attempt, log, normVars, styleVars>>

\* util.py 146 and 150-155: the stream breaks
GenStreamFail ==
    /\ rpc = "stream"
    /\ GenFailed(log)

\* util.py 149: the stream is exhausted, gen_draft returns
GenStreamEnd ==
    /\ rpc = "stream"
    /\ log' = [log EXCEPT !["gen_draft"].outcome = "returned"]
    /\ rpc' = "tmpdir"
    /\ UNCHANGED <<files, attempt, draft_text, stream_text, nchunks,
                   normVars, styleVars>>

\* app.py 52-65: the temporary directory with text.md and report.md
OpenTmpDir ==
    /\ rpc = "tmpdir"
    /\ files' = files \cup {"tmpdir"}
    /\ rpc' = "tmp_md"
    /\ UNCHANGED <<attempt, log, draft_text, stream_text, nchunks,
                   normVars, styleVars>>

\* converter.py 139-143: NamedTemporaryFile(delete=False), in the system's
\* temporary directory
WriteTmpMd ==
    /\ rpc = "tmp_md"
    /\ files' = files \cup {"tmp_md"}
    /\ rpc' = "pandoc"
    /\ UNCHANGED <<attempt, log, draft_text, stream_text, nchunks,
                   normVars, styleVars>>

\* what exists once an exception has left main's with TemporaryDirectory
AfterRaise(fs) == fs \ {"tmpdir"}

\* converter.py 148-165: pandoc converts and the file is unlinked, or
\* pandoc raises
Pandoc ==
    /\ rpc = "pandoc"
    /\ \E ok \in BOOLEAN :
          IF ok
          THEN /\ files' = files \ {"tmp_md"}
               /\ rpc' = "style"
          ELSE /\ files' = AfterRaise(files)
               /\ rpc' = "failed"
    /\ UNCHANGED <<attempt, log, draft_text, stream_text, nchunks,
                   normVars, styleVars>>

\* converter.py 179-268: the styling succeeds or raises
StyleStep ==
    /\ rpc = "style"
    /\ \E ok \in BOOLEAN :
          IF ok
          THEN /\ files' = files
               /\ rpc' = "zip"
          ELSE /\ files' = AfterRaise(files)
               /\ rpc' = "failed"
    /\ UNCHANGED <<attempt, log, draft_text, stream_text, nchunks,
                   normVars, styleVars>>

\* app.py 67-84: the archive is built in memory, the with block ends
Zip ==
    /\ rpc = "zip"
    /\ files' = files \ {"tmpdir"}
    /\ rpc' = "done"
    /\ UNCHANGED <<attempt, log, draft_text, stream_text, nchunks,
                   normVars, styleVars>>

NextRequest ==
    \/ Click
    \/ OcrAttemptOk \/ OcrAttemptFail
    \/ GenCallOk \/ GenCallFail \/ GenChunk \/ GenStreamFail \/ GenStreamEnd
    \/ OpenTmpDir \/ WriteTmpMd \/ Pandoc \/ StyleStep \/ Zip

SpecRequest == InitRequest /\ [][NextRequest]_vars

RequestEnded == rpc \in {"done", "failed", "rejected"}

Min(a, b) == IF a <= b THEN a ELSE b

(***************************************************************************)
(* C5: ocr and gen_draft each make at most 5 attempts; a success is the    *)
(* last attempt; after the failed attempt k (0-based, k < 4) the wait is   *)
(* 2^k seconds, so the waits are 1, 2, 4, 8; when all 5 attempts fail the  *)
(* 5th error is raised with no further wait or attempt.                    *)
(***************************************************************************)
C5_BoundedBackoffRetry ==
    \A f \in Functions :
        LET r == log[f]
        IN  /\ r.calls <= 5
            /\ r.fails <= r.calls /\ r.calls <= r.fails + 1
            /\ Len(r.sleeps) = Min(r.fails, 4)
            /\ \A k \in 1..Len(r.sleeps) : r.sleeps[k] = 2 ^ (k - 1)
            /\ r.outcome = "running" => r.fails < 5
            /\ r.outcome = "returned" => r.calls = r.fails + 1
            /\ r.outcome = "raised" =>
                   r.calls = 5 /\ r.fails = 5 /\ r.raised_at = 5

\* ocr succeeded on its 5th attempt after waits 1, 2, 4, 8 and gen_draft
\* raised after 5 failed attempts
C5_Witness ==
    /\ log["ocr"].outcome = "returned"
    /\ log["ocr"].sleeps = <<1, 2, 4, 8>>
    /\ log["gen_draft"].outcome = "raised"
    /\ log["gen_draft"].sleeps = <<1, 2, 4, 8>>

(***************************************************************************)
(* C6 as stated: once the request has ended, on every exit path, none of   *)
(* its temporary files (the PDF, the directory, the markdown file) exists. *)
(***************************************************************************)
C6_NoTempFileLeft == RequestEnded => files = {}

(***************************************************************************)
(* C10 as stated: when gen_draft has finished without raising, the draft   *)
(* main accumulated is the text of exactly one complete response stream.   *)
(***************************************************************************)
C10_DraftIsOneStream ==
    log["gen_draft"].outcome = "returned" => draft_text = stream_text

(***************************************************************************)
(* Style post-processing of the produced document.  The body is the list   *)
(* of its block elements: paragraphs (tag "p", some holding a display-math *)
(* block) and tables (tag "tbl"); jc is the element's alignment.           *)
(***************************************************************************)
Paragraph(math, jc) ==
    [tag |-> "p", math |-> math, jc |-> jc, black |-> FALSE, borders |-> FALSE]

Table == [tag |-> "tbl", math |-> FALSE, jc |-> "none", black |-> FALSE,
          borders |-> FALSE]

\* what pandoc may have produced
Elements ==
    { Paragraph(FALSE, "none"), Paragraph(FALSE, "center"),
      Paragraph(TRUE, "none"), Table }

\* doc.paragraphs and doc.tables: the body's own paragraphs / tables, in order
IndicesOf(b, tag) == { i \in 1..Len(b) : b[i].tag = tag }

Nth(S, k) == CHOOSE i \in S : Cardinality({ t \in S : t < i }) = k - 1

InitStyle ==
    /\ body \in SeqsUpTo(Elements, MaxBody)
    /\ body0 = body
    /\ spc = "paragraphs"
    /\ pidx = 1
    /\ tidx = 1
    /\ NormIdle /\ ReqIdle

\* converter.py 195-199: the next paragraph is justified, its runs set black
JustifyParagraph ==
    /\ spc = "paragraphs"
    /\ pidx <= Cardinality(IndicesOf(body, "p"))
    /\ LET i == Nth(IndicesOf(body, "p"), pidx)
       IN  body' = [body EXCEPT ![i].jc = "justify", ![i].black = TRUE]
    /\ pidx' = pidx + 1
    /\ UNCHANGED <<body0, spc, tidx, normVars, reqVars>>

\* the paragraph loop ends
EndParagraphs ==
    /\ spc = "paragraphs"
    /\ pidx > Cardinality(IndicesOf(body, "p"))
    /\ spc' = "tables"
    /\ UNCHANGED <<body, body0, pidx, tidx, normVars, reqVars>>

\* table_element.getprevious(): the index of the sibling before i, 0 if none
getnext(b, i) == IF i < Len(b) THEN i + 1 ELSE 0

getprevious(b, i) == i - 1

\* converter.py 250-255: the sibling, when it is a paragraph, is centred
CenterCaption(b, prev) ==
    IF prev # 0 /\ b[prev].tag = "p"
    THEN [b EXCEPT ![prev].jc = "center"]
    ELSE b

\* converter.py 243-260: the next table is centred, the paragraph right
\* before it is centred, its borders are set
StyleTable ==
    /\ spc = "tables"
    /\ tidx <= Cardinality(IndicesOf(body, "tbl"))
    /\ LET t == Nth(IndicesOf(body, "tbl"), tidx)
           centred == [body EXCEPT ![t].jc = "center", ![t].borders = TRUE]
       IN  body' = CenterCaption(centred, getprevious(body, t))
    /\ tidx' = tidx + 1
    /\ UNCHANGED <<body0, spc, pidx, normVars, reqVars>>

\* the table loop ends; converter.py 262-266 restyle the runs of the
\* headers and footers, which are no part of the body
HeaderFooter ==
    /\ spc = "tables"
    /\ tidx > Cardinality(IndicesOf(body, "tbl"))
    /\ spc' = "save"
    /\ UNCHANGED <<body, body0, pidx, tidx, normVars, reqVars>>

\* converter.py 268
Save ==
    /\ spc = "save"
    /\ spc' = "saved"
    /\ UNCHANGED <<body, body0, pidx, tidx, normVars, reqVars>>

NextStyle == JustifyParagraph \/ EndParagraphs \/ StyleTable \/ HeaderFooter \/ Save

SpecStyle == InitStyle /\ [][NextStyle]_vars

Tags(b) == [i \in 1..Len(b) |-> b[i].tag]

OneTableOneMath(b) ==
    /\ Cardinality(IndicesOf(b, "tbl")) = 1
    /\ Cardinality({ i \in 1..Len(b) : b[i].math }) = 1

(***************************************************************************)
(* C7: for a document with one table and one display-math block the        *)
(* post-processor adds and removes no paragraph, and when it has finished  *)
(* every body paragraph is justified except the paragraph right before the *)
(* table, which is centred.                                                *)
(***************************************************************************)
C7_JustifiedExceptCaption ==
    (spc = "saved" /\ OneTableOneMath(body0)) =>
        /\ Tags(body) = Tags(body0)
        /\ \A i \in IndicesOf(body, "p") :
              body[i].jc = IF i < Len(body) /\ body[i + 1].tag = "tbl"
                           THEN "center"
                           ELSE "justify"

\* a caption paragraph before the table was centred over its justification,
\* and a paragraph that came centred from pandoc was justified
C7_Witness ==
    /\ spc = "saved" /\ OneTableOneMath(body0)
    /\ \E t \in IndicesOf(body, "tbl") :
          /\ t > 1
          /\ body0[t - 1].tag = "p" /\ body0[t - 1].jc = "none"
          /\ body[t - 1].jc = "center"
    /\ \E i \in IndicesOf(body, "p") :
          body0[i].jc = "center" /\ body[i].jc = "justify"

====
